---------------------------- MODULE Spec2Model ----------------------------
(***************************************************************************)
(* Model of the churn-analysis job tracker of backend/server.py: the       *)
(* upload_csv / get_analysis_status / delete_analysis handlers, the        *)
(* analyze_churn_data background task, the churn_analyses collection and   *)
(* the upload directory.                                                   *)
(*                                                                         *)
(* Texts (file names, AI responses) are sequences of tokens.  A token is   *)
(* one lexical unit of the text: the three-backtick fence, a word, a       *)
(* newline, a JSON punctuation mark, a digit, or an object key together    *)
(* with its colon.                                                         *)
(***************************************************************************)
EXTENDS Integers, Sequences, FiniteSets, TLC

(***************************************************************************)
(* Python values as they are stored in a document or produced by           *)
(* json.loads.  Every value has the same shape so that any two can be      *)
(* compared: t is the Python type, n the number (int), s the text (str) or *)
(* the elements (list).                                                    *)
(***************************************************************************)
None == [t |-> "None", n |-> 0, s |-> <<>>]

PyInt(k) == [t |-> "int", n |-> k, s |-> <<>>]

PyStr(txt) == [t |-> "str", n |-> 0, s |-> txt]

PyList(elems) == [t |-> "list", n |-> Len(elems), s |-> elems]

\* The marker of a key that a dict does not hold.
Absent == [t |-> "absent", n |-> 0, s |-> <<>>]

\* The keys the analyzer reads from the parsed response.
Keys == {"total_customers:", "high_risk_customers:", "predictions:",
         "insights:", "recommendations:"}

EmptyDict == [k \in Keys |-> Absent]

\* The token of the code-fence marker, three backticks.
FENCE == "FENCE"

\* The digits a text may hold, with the numbers they denote.
Digits == {"0", "2", "5", "7"}

DigitValue(d) == CASE d = "0" -> 0 [] d = "2" -> 2 [] d = "5" -> 5 [] OTHER -> 7

(***************************************************************************)
(* str methods                                                             *)
(***************************************************************************)
startswith(txt, prefix) ==
    /\ Len(prefix) <= Len(txt)
    /\ SubSeq(txt, 1, Len(prefix)) = prefix

endswith(txt, suffix) ==
    /\ Len(suffix) <= Len(txt)
    /\ SubSeq(txt, Len(txt) - Len(suffix) + 1, Len(txt)) = suffix

RECURSIVE lstrip(_)
lstrip(txt) ==
    IF txt # <<>> /\ Head(txt) = "\n" THEN lstrip(Tail(txt)) ELSE txt

RECURSIVE rstrip(_)
rstrip(txt) ==
    IF txt # <<>> /\ txt[Len(txt)] = "\n"
    THEN rstrip(SubSeq(txt, 1, Len(txt) - 1))
    ELSE txt

strip(txt) == rstrip(lstrip(txt))

\* txt.replace(old, ''): every non-overlapping occurrence of old, from the
\* left, is removed.
RECURSIVE replace(_, _)
replace(txt, old) ==
    IF txt = <<>> THEN <<>>
    ELSE IF startswith(txt, old)
         THEN replace(SubSeq(txt, Len(old) + 1, Len(txt)), old)
         ELSE <<Head(txt)>> \o replace(Tail(txt), old)

(***************************************************************************)
(* json.loads on a token text.  A parse step returns ok, the value val     *)
(* (with its members m when it is a dict), the position next after the     *)
(* value, and the message msg of the JSONDecodeError otherwise.            *)
(***************************************************************************)
ParseFail(message) ==
    [ok |-> FALSE, val |-> None, m |-> EmptyDict, next |-> 0, msg |-> message]

ParseOk(v, members, nxt) ==
    [ok |-> TRUE, val |-> v, m |-> members, next |-> nxt, msg |-> ""]

RECURSIVE SkipWs(_, _)
SkipWs(txt, i) ==
    IF i <= Len(txt) /\ txt[i] = "\n" THEN SkipWs(txt, i + 1) ELSE i

\* The position of the quote closing the string whose content starts at i;
\* 0 when the string is unterminated, -1 when it holds a raw newline.
RECURSIVE StringEnd(_, _)
StringEnd(txt, i) ==
    IF i > Len(txt) THEN 0
    ELSE IF txt[i] = "\"" THEN i
    ELSE IF txt[i] = "\n" THEN -1
    ELSE StringEnd(txt, i + 1)

\* The elements of a list of digits after its opening bracket: "]" or
\* digit ("," digit)* "]".
RECURSIVE ParseElems(_, _, _)
ParseElems(txt, i, acc) ==
    LET j == SkipWs(txt, i) IN
    IF j > Len(txt) THEN ParseFail("Expecting value")
    ELSE IF txt[j] = "]" /\ acc = <<>> THEN ParseOk(PyList(acc), EmptyDict, j + 1)
    ELSE IF txt[j] \notin Digits THEN ParseFail("Expecting value")
    ELSE LET k == SkipWs(txt, j + 1)
             got == Append(acc, txt[j]) IN
         IF k > Len(txt) THEN ParseFail("Expecting ',' delimiter")
         ELSE IF txt[k] = "]" THEN ParseOk(PyList(got), EmptyDict, k + 1)
         ELSE IF txt[k] = "," THEN ParseElems(txt, k + 1, got)
         ELSE ParseFail("Expecting ',' delimiter")

\* null, a digit, a string or a list at position i.
ParseScalar(txt, i) ==
    IF i > Len(txt) THEN ParseFail("Expecting value")
    ELSE IF txt[i] = "null" THEN ParseOk(None, EmptyDict, i + 1)
    ELSE IF txt[i] \in Digits
         THEN ParseOk(PyInt(DigitValue(txt[i])), EmptyDict, i + 1)
    ELSE IF txt[i] = "\""
         THEN LET e == StringEnd(txt, i + 1) IN
              IF e = 0 THEN ParseFail("Unterminated string")
              ELSE IF e = -1 THEN ParseFail("Invalid control character")
              ELSE ParseOk(PyStr(SubSeq(txt, i + 1, e - 1)), EmptyDict, e + 1)
    ELSE IF txt[i] = "[" THEN ParseElems(txt, i + 1, <<>>)
    ELSE ParseFail("Expecting value")

\* The members of an object after its opening brace: "}" or
\* key value ("," key value)* "}".  A repeated key keeps its last value.
RECURSIVE ParseMembers(_, _, _, _)
ParseMembers(txt, i, acc, first) ==
    LET j == SkipWs(txt, i) IN
    IF j > Len(txt) THEN ParseFail("Expecting property name")
    ELSE IF txt[j] = "}" /\ first THEN ParseOk(None, acc, j + 1)
    ELSE IF txt[j] \notin Keys THEN ParseFail("Expecting property name")
    ELSE LET v == ParseScalar(txt, SkipWs(txt, j + 1)) IN
         IF ~v.ok THEN v
         ELSE LET k == SkipWs(txt, v.next)
                  got == [acc EXCEPT ![txt[j]] = v.val] IN
              IF k > Len(txt) THEN ParseFail("Expecting ',' delimiter")
              ELSE IF txt[k] = "}" THEN ParseOk(None, got, k + 1)
              ELSE IF txt[k] = "," THEN ParseMembers(txt, k + 1, got, FALSE)
              ELSE ParseFail("Expecting ',' delimiter")

ParseValue(txt, i) ==
    IF i <= Len(txt) /\ txt[i] = "{"
    THEN LET r == ParseMembers(txt, i + 1, EmptyDict, TRUE) IN
         IF r.ok THEN ParseOk([t |-> "dict", n |-> 0, s |-> <<>>], r.m, r.next)
         ELSE r
    ELSE ParseScalar(txt, i)

json_loads(txt) ==
    LET r == ParseValue(txt, SkipWs(txt, 1)) IN
    IF ~r.ok THEN r
    ELSE IF SkipWs(txt, r.next) = Len(txt) + 1 THEN r
    ELSE ParseFail("Extra data")

\* A get that also gives the default for a key whose value is null.
dict_get_or(members, key, default) ==
    IF members[key] \in {Absent, None} THEN default ELSE members[key]

\* analysis_result.get(key, default) on a parsed dict.
dict_get(members, key, default) ==
    IF members[key] = Absent THEN default ELSE members[key]

\* Lines 190-194: strip the response and remove the code-fence markers.
StripFences(response) ==
    LET response_text == strip(response) IN
    IF startswith(response_text, <<FENCE, "json">>)
    THEN strip(replace(replace(response_text, <<FENCE, "json">>), <<FENCE>>))
    ELSE IF startswith(response_text, <<FENCE>>)
         THEN strip(replace(response_text, <<FENCE>>))
         ELSE response_text

(***************************************************************************)
(* Bounds and input domains                                                *)
(***************************************************************************)
\* The number of uploads that reach uuid.uuid4() in a run.
MaxJobs == 2

\* The lines of the test upload: a header and five customers.
SampleLines == 6

\* The analysis ids uuid4 can return, in the order it returns them.
Ids == 1..MaxJobs

\* An id no upload was ever given ("nonexistent-analysis-id").
FakeId == 0

AllIds == Ids \cup {FakeId}

\* Uploaded file names.
Filenames == {<<"test_customers", ".", "csv">>, <<"test", ".", "txt">>,
              <<"test", ".", "csv", ".", "txt">>}

\* Uploaded file contents, as their number of lines: an empty file and the
\* test upload.
FileLines == {0, SampleLines}

\* The texts the external AI service answers with.
Responses ==
    { <<"{", "total_customers:", "7", ",", "high_risk_customers:", "2", ",",
        "predictions:", "[", "5", "]", ",", "insights:", "\"", "x", "\"", ",",
        "recommendations:", "\"", "x", "\"", "}">>,
      <<FENCE, "json", "\n", "{", "high_risk_customers:", "2", ",",
        "insights:", "null", "}", "\n", FENCE>>,
      <<"[", "5", "]">>,
      <<"\n", "x", "{", "}", "\n">> }

\* Line 257: limit(20).
ListLimit == 20

\* The order find().sort() gives documents with equal created_at, which
\* the store leaves open: their insertion order or its reverse.
TieOrders == {"natural", "reverse"}

\* How the file system and the store behave during one upload.
UploadOutcomes == {"ok", "open_fails", "write_fails", "insert_fails"}

\* How the file system behaves during one delete.
DeleteOutcomes == {"ok", "remove_fails"}

(***************************************************************************)
(* State                                                                   *)
(***************************************************************************)
VARIABLES
    churn_analyses,  \* db.churn_analyses: analysis_id -> document
    uploads,         \* UPLOAD_DIR: analysis_id of the path -> lines of the file
    tasks,           \* the analyze_churn_data task of each id
    gemini_api_key,  \* whether GEMINI_API_KEY is set in the environment
    generated,       \* how many ids uuid4 has returned
    resp,            \* the HTTP response of the last request
    returned,        \* history: the ids upload_csv has returned, in order
    deleted,         \* history: the ids whose delete returned 200
    unlinked,        \* whether the last request called os.remove
    given,           \* json parsing alone: the fence and the JSON text
    wrapped,         \* json parsing alone: the parse of the fenced text
    bare             \* json parsing alone: the parse of the JSON text

vars == <<churn_analyses, uploads, tasks, gemini_api_key, generated, resp,
          returned, deleted, unlinked, given, wrapped, bare>>

parseVars == <<given, wrapped, bare>>

trackerVars == <<churn_analyses, uploads, tasks, gemini_api_key, generated,
                 resp, returned, deleted, unlinked>>

\* datetime.now() as stored in completed_at: some time, never None.
Timestamp == PyStr(<<"datetime">>)

\* Lines 94-105: the document upload_csv inserts.  The fields a later $set
\* adds (error, raw_response, completed_at) are None until then.
analysis_record(analysis_id, filename, createdAt) ==
    [analysis_id |-> analysis_id,
     filename |-> filename,
     file_path |-> analysis_id,
     status |-> "processing",
     created_at |-> createdAt,
     total_customers |-> None,
     high_risk_customers |-> None,
     predictions |-> None,
     insights |-> None,
     recommendations |-> None,
     error |-> None,
     raw_response |-> None,
     completed_at |-> None]

\* db.churn_analyses.insert_one(doc)
insert_one(coll, doc) ==
    [i \in DOMAIN coll \cup {doc.analysis_id} |->
        IF i = doc.analysis_id THEN doc ELSE coll[i]]

\* An update whose filter matches every document.
update_unfiltered(coll, id, fields) ==
    [i \in DOMAIN coll |->
        [f \in DOMAIN coll[i] |->
            IF f \in DOMAIN fields THEN fields[f] ELSE coll[i][f]]]

\* An update filtered by the file name of the job, not by its id.
update_by_filename(coll, id, fields) ==
    [i \in DOMAIN coll |->
        IF id \in DOMAIN coll /\ coll[i].filename = coll[id].filename
        THEN [f \in DOMAIN coll[i] |->
                IF f \in DOMAIN fields THEN fields[f] ELSE coll[i][f]]
        ELSE coll[i]]

\* An update that is lost.
update_dropped(coll, id, fields) == coll

\* An update with upsert=True: without a match a document is inserted.
update_upsert(coll, id, fields) ==
    [i \in DOMAIN coll \cup {id} |->
        LET old == IF i \in DOMAIN coll THEN coll[i]
                   ELSE analysis_record(id, <<>>, 0) IN
        IF i = id
        THEN [f \in DOMAIN old |-> IF f \in DOMAIN fields THEN fields[f] ELSE old[f]]
        ELSE old]

\* db.churn_analyses.update_one({"analysis_id": id}, {"$set": fields}): the
\* matching document gets the fields; without a match nothing is written.
update_one(coll, id, fields) ==
    IF id \in DOMAIN coll
    THEN [coll EXCEPT ![id] =
            [f \in DOMAIN @ |-> IF f \in DOMAIN fields THEN fields[f] ELSE @[f]]]
    ELSE coll

\* db.churn_analyses.delete_one({"analysis_id": id})
delete_one(coll, id) == [i \in DOMAIN coll \ {id} |-> coll[i]]

\* os.path.exists(path)
exists(dir, path) == path \in DOMAIN dir

\* open(path, "wb").write(contents)
write_file(dir, path, lines) ==
    [p \in DOMAIN dir \cup {path} |-> IF p = path THEN lines ELSE dir[p]]

\* os.remove(path)
remove(dir, path) == [p \in DOMAIN dir \ {path} |-> dir[p]]

\* A generator that can repeat an id.
uuid4_repeating(count) == 1

\* uuid.uuid4(): an id that was not returned before.
uuid4(count) == count + 1

\* The task before create_task and after it has ended.
NoTask ==
    [pc |-> "none", total_customers |-> 0, matched_count |-> 0]

\* An HTTP response: the request (op, with the file name of an upload), the
\* id (the path parameter of a lookup or delete, the analysis_id an upload
\* returns), the status code, the detail of an HTTPException, the status an
\* upload returns and the documents of the body: the one a lookup returns,
\* the analyses a listing returns.
Response(op, filename, id, code, detail, status, doc) ==
    [op |-> op, filename |-> filename, id |-> id, code |-> code,
     detail |-> detail, status |-> status, doc |-> doc]

Init ==
    /\ churn_analyses = <<>>
    /\ uploads = <<>>
    /\ tasks = [i \in Ids |-> NoTask]
    /\ gemini_api_key \in BOOLEAN
    /\ generated = 0
    /\ resp = Response("none", <<>>, FakeId, 0, "", "", <<>>)
    /\ returned = <<>>
    /\ deleted = {}
    /\ unlinked = FALSE
    /\ given = [tag |-> <<>>, body |-> <<>>]
    /\ wrapped = ParseFail("pending")
    /\ bare = ParseFail("pending")

(***************************************************************************)
(* POST /api/upload-csv (lines 74-119)                                     *)
(***************************************************************************)
\* A check for '.csv' anywhere in the name.
is_csv_anywhere(filename) ==
    \E i \in 1..(Len(filename) - 1) : filename[i] = "." /\ filename[i + 1] = "csv"

\* Lines 79-80: the file type check.
is_csv(filename) == endswith(filename, <<".", "csv">>)

\* An upload that schedules nothing.
create_task_never(pool, analysis_id) == pool

\* Line 110: asyncio.create_task(analyze_churn_data(analysis_id, ...)).
create_task(pool, analysis_id) ==
    [pool EXCEPT ![analysis_id] =
        [pc |-> "scheduled", total_customers |-> 0, matched_count |-> 0]]

\* Lines 82-119 for an accepted file name.  The steps run in the order of
\* the code: uuid4, open and write the file, insert_one, create_task; the
\* first one that raises ends the request with 500 and keeps what the
\* earlier ones did.
upload_accepted(filename, lines, outcome) ==
    LET analysis_id == uuid4(generated)
        written == write_file(uploads, analysis_id,
                              IF outcome = "write_fails" THEN 0 ELSE lines)
        doc == analysis_record(analysis_id, filename, analysis_id)
    IN
    /\ generated < MaxJobs
    /\ generated' = generated + 1
    /\ uploads' = IF outcome = "open_fails" THEN uploads ELSE written
    /\ churn_analyses' = IF outcome = "ok"
                         THEN insert_one(churn_analyses, doc)
                         ELSE churn_analyses
    /\ tasks' = IF outcome = "ok" THEN create_task(tasks, analysis_id)
                ELSE tasks
    /\ returned' = IF outcome = "ok" THEN Append(returned, analysis_id)
                   ELSE returned
    /\ resp' = IF outcome = "ok"
               THEN Response("upload", filename, analysis_id, 200, "",
                             "processing", <<>>)
               ELSE Response("upload", filename, FakeId, 500,
                             "File upload failed", "", <<>>)
    /\ unlinked' = FALSE
    /\ UNCHANGED <<gemini_api_key, deleted>>

upload_rejected(filename) ==
    /\ resp' = Response("upload", filename, FakeId, 400,
                        "Only CSV files are allowed", "", <<>>)
    /\ unlinked' = FALSE
    /\ UNCHANGED <<churn_analyses, uploads, tasks, gemini_api_key, generated,
                   returned, deleted>>

\* The request carries the file name and the contents; the outcome of the
\* file and store calls matters only once the name is accepted.
upload_csv(filename) ==
    /\ IF ~is_csv(filename)
       THEN upload_rejected(filename)
       ELSE \E lines \in FileLines, outcome \in UploadOutcomes :
               upload_accepted(filename, lines, outcome)
    /\ UNCHANGED parseVars

(***************************************************************************)
(* GET /api/analysis/{analysis_id} (lines 238-251)                         *)
(***************************************************************************)
\* db.churn_analyses.find_one({"analysis_id": id}): the document in a
\* sequence, or the empty sequence for None.
find_one(coll, id) == IF id \in DOMAIN coll THEN <<coll[id]>> ELSE <<>>

get_analysis_status(analysis_id) ==
    LET analysis == find_one(churn_analyses, analysis_id) IN
    /\ resp' = IF analysis = <<>>
               THEN Response("get", <<>>, analysis_id, 404,
                             "Analysis not found", "", <<>>)
               ELSE Response("get", <<>>, analysis_id, 200, "", "", analysis)
    /\ unlinked' = FALSE
    /\ UNCHANGED <<churn_analyses, uploads, tasks, gemini_api_key, generated,
                   returned, deleted>>
    /\ UNCHANGED parseVars

(***************************************************************************)
(* GET /api/analyses (lines 253-264)                                       *)
(***************************************************************************)
\* A sort by created_at ascending.
RECURSIVE sort_ascending(_, _, _)
sort_ascending(coll, ids, ties) ==
    IF ids = {} THEN <<>>
    ELSE LET oldest == {i \in ids : \A j \in ids :
                            coll[i].created_at <= coll[j].created_at}
             first == CHOOSE i \in oldest : \A j \in oldest : i <= j
         IN <<coll[first]>> \o sort_ascending(coll, ids \ {first}, ties)

\* find().sort("created_at", -1) over the documents ids: the newest first,
\* documents of one created_at in the order ties names.
RECURSIVE sort(_, _, _)
sort(coll, ids, ties) ==
    IF ids = {} THEN <<>>
    ELSE LET newest == {i \in ids : \A j \in ids :
                            coll[j].created_at <= coll[i].created_at}
             first == IF ties = "natural"
                      THEN CHOOSE i \in newest : \A j \in newest : i <= j
                      ELSE CHOOSE i \in newest : \A j \in newest : j <= i
         IN <<coll[first]>> \o sort(coll, ids \ {first}, ties)

\* cursor.limit(n)
limit(docs, n) == IF Len(docs) <= n THEN docs ELSE SubSeq(docs, 1, n)

get_all_analyses(ties) ==
    LET analyses == limit(sort(churn_analyses, DOMAIN churn_analyses, ties),
                          ListLimit) IN
    /\ resp' = Response("list", <<>>, FakeId, 200, "", "", analyses)
    /\ unlinked' = FALSE
    /\ UNCHANGED <<churn_analyses, uploads, tasks, gemini_api_key, generated,
                   returned, deleted>>
    /\ UNCHANGED parseVars

(***************************************************************************)
(* DELETE /api/analysis/{analysis_id} (lines 266-286)                      *)
(***************************************************************************)
\* A delete that leaves the file where it is.
should_remove_never(analysis, dir) == FALSE

\* A call of os.remove on every delete, without the check.
should_remove_unchecked(analysis, dir) == TRUE

\* Line 277: whether os.remove is called.  Every document has a file_path.
should_remove(analysis, dir) == exists(dir, analysis.file_path)

\* Lines 270-286.  os.remove raises when the environment makes it fail and
\* when the file is not there; what raises inside the try ends the request
\* with 500 before delete_one is reached.
delete_analysis(analysis_id, outcome) ==
    LET analysis == find_one(churn_analyses, analysis_id) IN
    /\ IF analysis = <<>>
       THEN /\ outcome = "ok"
            /\ resp' = Response("delete", <<>>, analysis_id, 404,
                                "Analysis not found", "", <<>>)
            /\ unlinked' = FALSE
            /\ UNCHANGED <<churn_analyses, uploads, deleted>>
       ELSE LET path == analysis[1].file_path
                called == should_remove(analysis[1], uploads)
                raised == called /\ (outcome = "remove_fails"
                                     \/ ~exists(uploads, path))
            IN
            \* os.remove can only be made to fail when it is called.
            /\ outcome = "remove_fails" => called
            /\ uploads' = IF called /\ ~raised THEN remove(uploads, path)
                          ELSE uploads
            /\ churn_analyses' = IF raised THEN churn_analyses
                                 ELSE delete_one(churn_analyses, analysis_id)
            /\ deleted' = IF raised THEN deleted
                          ELSE deleted \cup {analysis_id}
            /\ unlinked' = called
            /\ resp' = IF raised
                       THEN Response("delete", <<>>, analysis_id, 500,
                                     "Failed to delete analysis", "", <<>>)
                       ELSE Response("delete", <<>>, analysis_id, 200, "", "",
                                     <<>>)
    /\ UNCHANGED <<tasks, gemini_api_key, generated, returned>>
    /\ UNCHANGED parseVars

(***************************************************************************)
(* analyze_churn_data (lines 121-236).  The task runs from create_task to  *)
(* its only await, chat.send_message (line 185), in one step, and from the *)
(* answer of that call to its end in another: pd.read_csv and the pymongo  *)
(* calls are synchronous.                                                  *)
(***************************************************************************)
\* Lines 126-127: pd.read_csv(file_path) and len(df).  A missing file and a
\* file without a header line raise; otherwise the rows are the lines after
\* the header.
read_csv(dir, path) ==
    IF ~exists(dir, path)
    THEN [ok |-> FALSE, rows |-> 0,
          msg |-> "[Errno 2] No such file or directory"]
    ELSE IF dir[path] = 0
         THEN [ok |-> FALSE, rows |-> 0, msg |-> "No columns to parse from file"]
         ELSE [ok |-> TRUE, rows |-> dir[path] - 1, msg |-> ""]

\* A $set that also stores the response text of a parsed response.
completed_update_with_raw(analysis_result, total_customers) ==
    [status |-> "completed",
     completed_at |-> Timestamp,
     raw_response |-> PyStr(<<"x">>),
     total_customers |->
        dict_get(analysis_result, "total_customers:", PyInt(total_customers)),
     high_risk_customers |->
        dict_get(analysis_result, "high_risk_customers:", PyInt(0)),
     predictions |-> dict_get(analysis_result, "predictions:", PyList(<<>>)),
     insights |-> dict_get(analysis_result, "insights:", PyStr(<<>>)),
     recommendations |->
        dict_get(analysis_result, "recommendations:", PyStr(<<>>))]

\* Lines 199-207: the $set of a parsed response.
completed_update(analysis_result, total_customers) ==
    [status |-> "completed",
     completed_at |-> Timestamp,
     total_customers |->
        dict_get(analysis_result, "total_customers:", PyInt(total_customers)),
     high_risk_customers |->
        dict_get(analysis_result, "high_risk_customers:", PyInt(0)),
     predictions |-> dict_get(analysis_result, "predictions:", PyList(<<>>)),
     insights |-> dict_get(analysis_result, "insights:", PyStr(<<>>)),
     recommendations |->
        dict_get(analysis_result, "recommendations:", PyStr(<<>>))]

\* A handler that stores the stripped text.
parse_error_update_stripped(message, response, total_customers) ==
    [status |-> "completed_with_errors",
     error |-> PyStr(<<"JSON parsing error: ", message>>),
     raw_response |-> PyStr(StripFences(response)),
     total_customers |-> PyInt(total_customers),
     completed_at |-> Timestamp]

\* Lines 218-224: the $set of the json.JSONDecodeError handler.
parse_error_update(message, response, total_customers) ==
    [status |-> "completed_with_errors",
     error |-> PyStr(<<"JSON parsing error: ", message>>),
     raw_response |-> PyStr(response),
     total_customers |-> PyInt(total_customers),
     completed_at |-> Timestamp]

\* An outer handler that leaves completed_at out.
failed_update_untimed(message) ==
    [status |-> "failed",
     error |-> PyStr(<<message>>)]

\* An outer handler that also writes a customer count.
failed_update_with_count(message) ==
    [status |-> "failed",
     error |-> PyStr(<<message>>),
     total_customers |-> PyInt(0),
     completed_at |-> Timestamp]

\* Lines 231-235: the $set of the outer handler, with str(e).
failed_update(message) ==
    [status |-> "failed",
     error |-> PyStr(<<message>>),
     completed_at |-> Timestamp]

\* Lines 188-225: what the task writes for a response.  json.loads raising
\* goes to the JSONDecodeError handler; analysis_result.get on a value that
\* is no dict raises AttributeError, which only the outer handler catches.
response_update(response, total_customers) ==
    LET analysis_result == json_loads(StripFences(response)) IN
    IF ~analysis_result.ok
    THEN parse_error_update(analysis_result.msg, response, total_customers)
    ELSE IF analysis_result.val.t # "dict"
         THEN failed_update("object has no attribute 'get'")
         ELSE completed_update(analysis_result.m, total_customers)

\* Lines 209, 216, 229: the matched_count of the UpdateResult that update_one
\* returns and the task drops: the number of documents the filter found.
matched_count(coll, analysis_id) ==
    IF analysis_id \in DOMAIN coll THEN 1 ELSE 0

\* The state of a task that has ended, with what its update_one matched.
TaskDone(analysis_id) ==
    [pc |-> "done", total_customers |-> 0,
     matched_count |-> matched_count(churn_analyses, analysis_id)]

\* Lines 124-185: from the start of the task to the await of send_message.
analyze_start(analysis_id) ==
    LET df == read_csv(uploads, analysis_id) IN
    /\ tasks[analysis_id].pc = "scheduled"
    /\ IF ~df.ok
       THEN /\ tasks' = [tasks EXCEPT ![analysis_id] = TaskDone(analysis_id)]
            /\ churn_analyses' =
                 update_one(churn_analyses, analysis_id, failed_update(df.msg))
       ELSE IF ~gemini_api_key
            THEN /\ tasks' = [tasks EXCEPT ![analysis_id] = TaskDone(analysis_id)]
                 /\ churn_analyses' =
                      update_one(churn_analyses, analysis_id,
                          failed_update("GEMINI_API_KEY not found in environment variables"))
            ELSE /\ tasks' = [tasks EXCEPT ![analysis_id] =
                                [pc |-> "awaiting", total_customers |-> df.rows,
                                 matched_count |-> 0]]
                 /\ UNCHANGED churn_analyses
    /\ UNCHANGED <<uploads, gemini_api_key, generated, resp, returned, deleted,
                   unlinked>>
    /\ UNCHANGED parseVars

\* Lines 185-225: send_message returns response.
analyze_response(analysis_id, response) ==
    /\ tasks[analysis_id].pc = "awaiting"
    /\ tasks' = [tasks EXCEPT ![analysis_id] = TaskDone(analysis_id)]
    /\ churn_analyses' =
          update_one(churn_analyses, analysis_id,
                     response_update(response, tasks[analysis_id].total_customers))
    /\ UNCHANGED <<uploads, gemini_api_key, generated, resp, returned, deleted,
                   unlinked>>
    /\ UNCHANGED parseVars

\* Lines 185 and 227-236: send_message raises.
analyze_raise(analysis_id) ==
    /\ tasks[analysis_id].pc = "awaiting"
    /\ tasks' = [tasks EXCEPT ![analysis_id] = TaskDone(analysis_id)]
    /\ churn_analyses' =
          update_one(churn_analyses, analysis_id,
                     failed_update("send_message failed"))
    /\ UNCHANGED <<uploads, gemini_api_key, generated, resp, returned, deleted,
                   unlinked>>
    /\ UNCHANGED parseVars

\* The state of a task that an exception has left.
TaskRaised ==
    [pc |-> "raised", total_customers |-> 0, matched_count |-> 0]

\* Lines 227-236 while the store cannot be reached: the task has failed
\* before its await (lines 126-132), or its update_one after the await has
\* raised (lines 209, 216), and the update_one of the outer handler (line
\* 229), which nothing guards, raises too.  The exception leaves the task
\* and no document is written.
update_raises(analysis_id) ==
    /\ \/ tasks[analysis_id].pc = "awaiting"
       \/ /\ tasks[analysis_id].pc = "scheduled"
          /\ ~read_csv(uploads, analysis_id).ok \/ ~gemini_api_key
    /\ tasks' = [tasks EXCEPT ![analysis_id] = TaskRaised]
    /\ UNCHANGED <<churn_analyses, uploads, gemini_api_key, generated, resp,
                   returned, deleted, unlinked>>
    /\ UNCHANGED parseVars

(***************************************************************************)
(* The upload directory is a directory of the host: a stored file can be   *)
(* removed from outside the program, which is the case os.path.exists      *)
(* (line 277) and the handler of pd.read_csv's error provide for.  The     *)
(* program looks for the file twice, in pd.read_csv (line 126) and in      *)
(* os.path.exists (line 277); the removal is taken before the first look,  *)
(* where both see it: to the delete handler a file removed later is the    *)
(* same missing file.                                                      *)
(***************************************************************************)
file_removed(path) ==
    /\ exists(uploads, path)
    /\ tasks[path].pc = "scheduled"
    /\ uploads' = remove(uploads, path)
    /\ UNCHANGED <<churn_analyses, tasks, gemini_api_key, generated, resp,
                   returned, deleted, unlinked>>
    /\ UNCHANGED parseVars

(***************************************************************************)
(* The job tracker.  The store answers every call of the tasks and of the  *)
(* lookup, listing and delete handlers.                                    *)
(***************************************************************************)
Next ==
    \/ \E filename \in Filenames : upload_csv(filename)
    \/ \E analysis_id \in AllIds : get_analysis_status(analysis_id)
    \/ \E ties \in TieOrders : get_all_analyses(ties)
    \/ \E analysis_id \in AllIds, outcome \in DeleteOutcomes :
          delete_analysis(analysis_id, outcome)
    \/ \E analysis_id \in Ids : analyze_start(analysis_id)
    \/ \E analysis_id \in Ids, response \in Responses :
          analyze_response(analysis_id, response)
    \/ \E analysis_id \in Ids : analyze_raise(analysis_id)
    \/ \E path \in Ids : file_removed(path)

Spec == Init /\ [][Next]_vars

\* A step of some task: its start, or the end of its external call.
TaskStep ==
    \E analysis_id \in Ids :
        \/ analyze_start(analysis_id)
        \/ analyze_raise(analysis_id)
        \/ \E response \in Responses : analyze_response(analysis_id, response)

\* The job tracker with the event loop running a task whenever one can run
\* (a task is ready from create_task, line 110, on) and the external
\* service ending every call with a response or an exception (line 185):
\* while some task can take a step, some task does.
FairSpec == Spec /\ WF_vars(TaskStep)

\* The job tracker while the store can stop answering during an analysis.
OutageNext ==
    \/ Next
    \/ \E analysis_id \in Ids : update_raises(analysis_id)

OutageSpec == Init /\ [][OutageNext]_vars

(***************************************************************************)
(* The response parsing of lines 190-196 alone: one fenced text and the    *)
(* JSON text inside it are each stripped and parsed.                       *)
(***************************************************************************)
\* What may follow the opening fence on its line: nothing or a language tag.
FenceTags == {<<>>, <<"json">>, <<"python">>, <<"JSON">>}

\* JSON texts.
JsonTexts ==
    { <<"{", "}">>,
      <<"{", "total_customers:", "7", "}">>,
      <<"{", "total_customers:", "7", ",", "insights:", "\"", "x", "\"", "}">>,
      <<"{", "\n", "predictions:", "[", "5", ",", "7", "]", "\n", "}">>,
      <<"{", "insights:", "\"", "x", FENCE, "x", "\"", "}">>,
      <<"{", "insights:", "\"", FENCE, "json", "\"", "}">>,
      <<"{", "recommendations:", "null", "}">>,
      <<"[", "]">>,
      <<"[", "5", "]">>,
      <<"5">>,
      <<"null">>,
      <<"\"", "x", "\"">>,
      <<"\"", FENCE, "\"">>,
      <<"\"", "json", "\"">> }

\* The JSON text in a fenced block: the fence and the tag, the text on
\* lines of its own, the closing fence.
Fenced(tag, body) == <<FENCE>> \o tag \o <<"\n">> \o body \o <<"\n", FENCE>>

Pending == ParseFail("pending")

ParseInit ==
    /\ churn_analyses = <<>>
    /\ uploads = <<>>
    /\ tasks = [i \in Ids |-> NoTask]
    /\ gemini_api_key = TRUE
    /\ generated = 0
    /\ resp = Response("none", <<>>, FakeId, 0, "", "", <<>>)
    /\ returned = <<>>
    /\ deleted = {}
    /\ unlinked = FALSE
    /\ given \in [tag : FenceTags, body : JsonTexts]
    /\ wrapped = Pending
    /\ bare = Pending

\* Lines 190-196 on the fenced text.
parse_fenced ==
    /\ wrapped = Pending
    /\ wrapped' = json_loads(StripFences(Fenced(given.tag, given.body)))
    /\ UNCHANGED <<given, bare>>
    /\ UNCHANGED trackerVars

\* Lines 190-196 on the JSON text itself.
parse_bare ==
    /\ bare = Pending
    /\ bare' = json_loads(StripFences(given.body))
    /\ UNCHANGED <<given, wrapped>>
    /\ UNCHANGED trackerVars

ParseNext == parse_fenced \/ parse_bare

ParseSpec == ParseInit /\ [][ParseNext]_vars

(***************************************************************************)
(* The listing of lines 253-264 alone, over stores of up to MaxStored      *)
(* documents whose created_at come from a steady clock, from a clock too   *)
(* coarse to tell two uploads apart, and from a clock that was set back.   *)
(***************************************************************************)
\* The number of documents in the store.
MaxStored == 22

Clocks == {"steady", "coarse", "set_back"}

\* datetime.now() (line 98) at the i-th upload.
Now(clock, i) ==
    CASE clock = "steady" -> i
      [] clock = "coarse" -> (i + 1) \div 2
      [] OTHER -> IF i % 2 = 1 THEN i + 2 ELSE i

\* The store after n uploads.
Stored(n, clock) ==
    [i \in 1..n |->
        analysis_record(i, <<"test_customers", ".", "csv">>, Now(clock, i))]

ListInit ==
    /\ churn_analyses \in {Stored(n, clock) : n \in 0..MaxStored, clock \in Clocks}
    /\ uploads = <<>>
    /\ tasks = [i \in Ids |-> NoTask]
    /\ gemini_api_key = TRUE
    /\ generated = 0
    /\ resp = Response("none", <<>>, FakeId, 0, "", "", <<>>)
    /\ returned = <<>>
    /\ deleted = {}
    /\ unlinked = FALSE
    /\ given = [tag |-> <<>>, body |-> <<>>]
    /\ wrapped = Pending
    /\ bare = Pending

ListNext == \E ties \in TieOrders : get_all_analyses(ties)

ListSpec == ListInit /\ [][ListNext]_vars

(***************************************************************************)
(* Properties                                                              *)
(***************************************************************************)
Terminal == {"completed", "completed_with_errors", "failed"}

\* The ids whose delete returned 200.
DeletedIds == deleted

\* The ids in a sequence of ids.
Range(ids) == {ids[i] : i \in 1..Len(ids)}

\* The last response is that of an upload that returned an analysis_id: no
\* other request was answered since.
JustUploaded == resp.op = "upload" /\ resp.code = 200

\* The returned id differs from every id returned before.
FreshId ==
    /\ returned # <<>>
    /\ resp.id = returned[Len(returned)]
    /\ \A i \in 1..(Len(returned) - 1) : returned[i] # resp.id

\* C1 as stated: after an upload of a .csv file whose file write and insert
\* succeed, the returned analysis_id differs from every id returned before,
\* and a lookup of that id made next, before any other request, shows the
\* status 'processing'.
C1_Original ==
    JustUploaded =>
        /\ FreshId
        /\ find_one(churn_analyses, resp.id) # <<>>
        /\ find_one(churn_analyses, resp.id)[1].status = "processing"

\* C1 amended: the returned analysis_id differs from every id returned
\* before, the upload answers 'processing', and a lookup of that id made
\* next finds the record, in 'processing' exactly as long as the id's
\* background task has not ended and in a terminal status once it has.
C1_Amended ==
    JustUploaded =>
        /\ FreshId
        /\ resp.status = "processing"
        /\ find_one(churn_analyses, resp.id) # <<>>
        /\ LET status == find_one(churn_analyses, resp.id)[1].status IN
           IF tasks[resp.id].pc = "done"
           THEN status \in Terminal
           ELSE status = "processing"

\* A second upload has returned and its record is still in 'processing'.
C1_Witness ==
    /\ JustUploaded
    /\ Len(returned) = 2
    /\ resp.id \in DOMAIN churn_analyses
    /\ churn_analyses[resp.id].status = "processing"

\* C2: the status of a record only moves from 'processing' to one of the
\* three terminal statuses, and a record holding a terminal status is never
\* changed again in any field by any step (it can only be deleted).
C2_StatusForwardOnly ==
    [][\A id \in DOMAIN churn_analyses \cap DOMAIN churn_analyses' :
          \/ churn_analyses'[id] = churn_analyses[id]
          \/ /\ churn_analyses[id].status = "processing"
             /\ churn_analyses'[id].status \in Terminal]_vars

\* Two records hold terminal statuses, both tasks having ended, and a
\* lookup has been answered since.
C2_Witness ==
    /\ DOMAIN churn_analyses = {1, 2}
    /\ churn_analyses[1].status = "completed"
    /\ churn_analyses[2].status = "failed"
    /\ tasks[1].pc = "done" /\ tasks[2].pc = "done"
    /\ resp.op = "get"

\* The file name ends in '.csv'.
EndsInCsv(filename) ==
    /\ Len(filename) >= 2
    /\ filename[Len(filename)] = "csv"
    /\ filename[Len(filename) - 1] = "."

\* C3: an upload whose file name does not end in '.csv' is answered 400 and
\* changes nothing: no record, no file, no background task.
C3_RejectedUploadChangesNothing ==
    [][(resp' # resp /\ resp'.op = "upload" /\ ~EndsInCsv(resp'.filename)) =>
          /\ resp'.code = 400
          /\ UNCHANGED <<churn_analyses, uploads, tasks, generated>>]_vars

\* An upload was rejected while a record and its file exist.
C3_Witness ==
    /\ resp.op = "upload" /\ resp.code = 400
    /\ resp.filename = <<"test", ".", "csv", ".", "txt">>
    /\ DOMAIN churn_analyses = {1}
    /\ exists(uploads, 1)

\* C4: a lookup of an id that no upload returned, or whose delete has
\* succeeded, is answered 404, whatever happened in between; a lookup of an
\* id that has a record is answered with that record as stored.
C4_LookupNotFoundOrStored ==
    [][(resp' # resp /\ resp'.op = "get") =>
          /\ (resp'.id \notin Range(returned') \/ resp'.id \in DeletedIds')
                => resp'.code = 404
          /\ resp'.id \in DOMAIN churn_analyses'
                => /\ resp'.code = 200
                   /\ resp'.doc = <<churn_analyses'[resp'.id]>>]_vars

\* A lookup of a deleted id was answered 404 after the id's background task
\* had made its update.
C4_Witness ==
    /\ resp.op = "get" /\ resp.code = 404
    /\ resp.id \in DeletedIds
    /\ tasks[resp.id].pc = "done"

\* The result fields of a record, each with its key in the AI response.
ResultFields == {"total_customers", "high_risk_customers", "predictions",
                 "insights", "recommendations"}

KeyOf(field) ==
    CASE field = "total_customers" -> "total_customers:"
      [] field = "high_risk_customers" -> "high_risk_customers:"
      [] field = "predictions" -> "predictions:"
      [] field = "insights" -> "insights:"
      [] OTHER -> "recommendations:"

\* The response text gives the key of the field the value null.
GivesNull(response, field) ==
    \E i \in 1..(Len(response) - 1) :
        response[i] = KeyOf(field) /\ response[i + 1] = "null"

\* C5 as stated: in every record the five result fields are all unset or
\* all set, and they are set only in 'completed' records.
C5_Original ==
    \A id \in DOMAIN churn_analyses :
        LET d == churn_analyses[id] IN
        /\ \/ \A f \in ResultFields : d[f] = None
           \/ \A f \in ResultFields : d[f] # None
        /\ (\E f \in ResultFields : d[f] # None) => d.status = "completed"

\* The part of C5 amended that every state satisfies.
C5_State ==
    \A id \in DOMAIN churn_analyses :
        LET d == churn_analyses[id] IN
        /\ d.status \in {"processing"} \cup Terminal
        /\ d.status \in {"processing", "failed"} =>
              \A f \in ResultFields : d[f] = None
        /\ d.status = "completed_with_errors" =>
              /\ d.total_customers.t = "int"
              /\ \A f \in ResultFields \ {"total_customers"} : d[f] = None

\* The part of C5 amended that every 'completed' transition satisfies.
C5_Step ==
    \A id \in DOMAIN churn_analyses \cap DOMAIN churn_analyses' :
        ( /\ churn_analyses[id].status = "processing"
          /\ churn_analyses'[id].status = "completed" ) =>
            \A response \in Responses :
                analyze_response(id, response) =>
                    \A f \in ResultFields :
                        churn_analyses'[id][f] = None => GivesNull(response, f)

\* C5 amended: a record in 'processing' or 'failed' has the five result
\* fields unset; a record in 'completed_with_errors' has total_customers
\* set, an int, and the other four unset; the 'completed' transition sets
\* each of the five, except a field that the AI response gives as null.
C5_Amended == []C5_State /\ [][C5_Step]_vars

\* One record is 'completed_with_errors' with the row count stored, another
\* is 'completed' with insights left unset by a null in the response.
C5_Witness ==
    /\ DOMAIN churn_analyses = {1, 2}
    /\ churn_analyses[1].status = "completed_with_errors"
    /\ churn_analyses[1].total_customers = PyInt(SampleLines - 1)
    /\ churn_analyses[2].status = "completed"
    /\ churn_analyses[2].insights = None
    /\ churn_analyses[2].high_risk_customers = PyInt(2)

\* C6 as stated: whenever the response, its code fences stripped, parses as
\* JSON, whatever the JSON value, the task moves the record to 'completed'.
C6_Claim ==
    [][\A id \in DOMAIN churn_analyses :
          (tasks[id].pc = "awaiting" /\ tasks'[id].pc = "done") =>
              \A response \in Responses :
                  ( /\ json_loads(StripFences(response)).ok
                    /\ analyze_response(id, response) ) =>
                      churn_analyses'[id].status = "completed"]_vars

\* C7: whenever the response does not parse as JSON, the record moves to
\* 'completed_with_errors' with raw_response the text exactly as received,
\* error the message of the parse error, and total_customers the row count
\* of the uploaded file.
C7_UnparsedResponseKept ==
    [][\A id \in DOMAIN churn_analyses :
          (tasks[id].pc = "awaiting" /\ tasks'[id].pc = "done") =>
              \A response \in Responses :
                  ( /\ ~json_loads(StripFences(response)).ok
                    /\ analyze_response(id, response) ) =>
                      LET d == churn_analyses'[id] IN
                      /\ d.status = "completed_with_errors"
                      /\ d.raw_response = PyStr(response)
                      /\ d.error.t = "str"
                      /\ d.error.s = <<"JSON parsing error: ",
                                       json_loads(StripFences(response)).msg>>
                      /\ d.total_customers.t = "int"
                      /\ exists(uploads, id) =>
                            d.total_customers.n = uploads[id] - 1]_vars

\* A record is 'completed_with_errors' and holds the response with the
\* newlines around it, and the row count of its file.
C7_Witness ==
    \E id \in DOMAIN churn_analyses :
        /\ churn_analyses[id].status = "completed_with_errors"
        /\ churn_analyses[id].raw_response = PyStr(<<"\n", "x", "{", "}", "\n">>)
        /\ exists(uploads, id)
        /\ churn_analyses[id].total_customers = PyInt(uploads[id] - 1)

\* C8 as stated: a delete of an id that has a record removes the record,
\* also when removing the uploaded file raises.
C8_Claim ==
    (resp.op = "delete" /\ resp.code # 404) =>
        resp.id \notin DOMAIN churn_analyses

\* C9: a delete of an id that has a record and whose file is already gone
\* is answered 200 and removes the record, and the lookup of that id made
\* next is answered 404; a delete of an id without a record is answered 404
\* and changes nothing.
C9_DeleteWithoutFile ==
    [][/\ (resp' # resp /\ resp'.op = "delete") =>
            /\ (resp'.id \in DOMAIN churn_analyses /\ ~exists(uploads, resp'.id))
                  => /\ resp'.code = 200
                     /\ resp'.id \notin DOMAIN churn_analyses'
            /\ resp'.id \notin DOMAIN churn_analyses
                  => /\ resp'.code = 404
                     /\ UNCHANGED <<churn_analyses, uploads, tasks>>
       /\ ( /\ resp.op = "delete" /\ resp.code = 200
            /\ resp' # resp /\ resp'.op = "get" /\ resp'.id = resp.id ) =>
               resp'.code = 404]_vars

\* A record whose file was already gone has been deleted, os.remove not
\* being called, and another record and its file are still there.
C9_Witness ==
    /\ resp.op = "delete" /\ resp.code = 200
    /\ ~unlinked
    /\ resp.id \in deleted
    /\ \E id \in DOMAIN churn_analyses : exists(uploads, id)

\* What json.loads returned or raised, without the position.
Outcome(parse) == [ok |-> parse.ok, val |-> parse.val, m |-> parse.m]

\* C10 as stated: a JSON text in a fenced block, with or without a language
\* tag, parses to the same result as the JSON text itself.
C10_Claim ==
    (wrapped # Pending /\ bare # Pending) => Outcome(wrapped) = Outcome(bare)

\* The text of the exception that ends a task before its await.
StartError(dir, path) ==
    IF ~read_csv(dir, path).ok THEN read_csv(dir, path).msg
    ELSE "GEMINI_API_KEY not found in environment variables"

\* No task has ended with an exception that nothing caught.
C11_NoUncaught == \A id \in Ids : tasks[id].pc # "raised"

\* A task that ends without a 'completed' or 'completed_with_errors' update
\* leaves its record, if there is one, 'failed' with the exception text.
C11_Step ==
    \A id \in DOMAIN churn_analyses \cap DOMAIN churn_analyses' :
        /\ (tasks[id].pc = "scheduled"
               /\ tasks'[id].pc \notin {"scheduled", "awaiting"}) =>
              /\ churn_analyses'[id].status = "failed"
              /\ churn_analyses'[id].error = PyStr(<<StartError(uploads, id)>>)
        /\ (tasks[id].pc = "awaiting" /\ tasks'[id].pc # "awaiting"
               /\ churn_analyses'[id].status
                     \notin {"completed", "completed_with_errors"}) =>
              /\ churn_analyses'[id].status = "failed"
              /\ churn_analyses'[id].error.t = "str"

\* C11 as stated: every failure of a task other than a JSON parse failure
\* is caught inside the task and recorded on the record as 'failed' with
\* the exception text, and no task ends with an uncaught exception.
C11_Claim == []C11_NoUncaught /\ [][C11_Step]_vars

\* C14: a listing is answered 200 with min(20, number of stored records)
\* records, never more than 20, each a stored record and none twice, ordered
\* by created_at descending, and no record left out is newer than a record
\* returned; on an empty store the list is empty.
C14_ListNewestTwenty ==
    [][(resp' # resp /\ resp'.op = "list") =>
          LET out == resp'.doc
              stored == DOMAIN churn_analyses
              listed == {out[k].analysis_id : k \in 1..Len(out)}
          IN
          /\ resp'.code = 200
          /\ Len(out) <= 20
          /\ Len(out) = IF Cardinality(stored) < 20
                        THEN Cardinality(stored) ELSE 20
          /\ \A k \in 1..Len(out) :
                /\ out[k].analysis_id \in stored
                /\ out[k] = churn_analyses[out[k].analysis_id]
          /\ Cardinality(listed) = Len(out)
          /\ \A k \in 1..(Len(out) - 1) :
                out[k].created_at >= out[k + 1].created_at
          /\ \A id \in stored \ listed : \A k \in 1..Len(out) :
                churn_analyses[id].created_at <= out[k].created_at
          /\ stored = {} => out = <<>>]_vars

\* A store of more than 20 records, two of them of one created_at, was
\* listed: 20 records came back, the oldest two left out.
C14_Witness ==
    /\ resp.op = "list" /\ resp.code = 200
    /\ Len(resp.doc) = 20
    /\ Cardinality(DOMAIN churn_analyses) = MaxStored
    /\ churn_analyses[1].created_at = churn_analyses[2].created_at
    /\ \A k \in 1..Len(resp.doc) : resp.doc[k].analysis_id \notin {1, 2}

\* C12: every record whose status is not 'processing' has completed_at
\* set; the updates being single steps, each terminal status is written
\* together with its completed_at.
C12_TerminalHasCompletedAt ==
    \A id \in DOMAIN churn_analyses :
        churn_analyses[id].status # "processing" =>
            churn_analyses[id].completed_at # None

\* One record is 'failed' and another 'completed_with_errors', both with
\* completed_at set.
C12_Witness ==
    /\ DOMAIN churn_analyses = {1, 2}
    /\ churn_analyses[1].status = "failed"
    /\ churn_analyses[2].status = "completed_with_errors"
    /\ churn_analyses[1].completed_at = Timestamp
    /\ churn_analyses[2].completed_at = Timestamp

\* The part of C13 that every state satisfies: the ids with a task are the
\* ids uploads returned, each returned once, and every record has a task.
C13_State ==
    /\ \A id \in Ids : (tasks[id].pc # "none") <=> (id \in Range(returned))
    /\ \A i, j \in 1..Len(returned) : returned[i] = returned[j] => i = j
    /\ \A id \in DOMAIN churn_analyses : tasks[id].pc # "none"

\* The part of C13 that every step satisfies: a task is scheduled only by
\* the upload that returns its id, for an id that had no task, and a task
\* once scheduled is never scheduled again.
C13_Step ==
    \A id \in Ids :
        /\ (tasks'[id].pc = "scheduled" /\ tasks[id].pc # "scheduled") =>
              /\ tasks[id].pc = "none"
              /\ resp'.op = "upload" /\ resp'.code = 200 /\ resp'.id = id
              /\ returned' = Append(returned, id)
              /\ id \in DOMAIN churn_analyses'
        /\ tasks[id].pc # "none" => tasks'[id].pc # "none"

\* C13: the background task is started exactly once for every upload that
\* returns an analysis_id and for no other reason: every record has a task,
\* and only returned ids have one.
C13_OneTaskPerUpload == []C13_State /\ [][C13_Step]_vars

\* A first upload failed with 500 and left no task; a second returned its
\* id, and its task has ended.
C13_Witness ==
    /\ returned = <<2>>
    /\ tasks[1].pc = "none"
    /\ tasks[2].pc = "done"
    /\ 2 \in DOMAIN churn_analyses

\* What the response gives for a result field: the value of its key, null
\* included, or the default when the response has no such key.
FromResponse(response, field, default) ==
    LET members == json_loads(StripFences(response)).m IN
    IF members[KeyOf(field)] = Absent THEN default ELSE members[KeyOf(field)]

\* The record d holds the fields the response gives, with the defaults of
\* a task that counted rows rows.
StoresResponse(d, response, rows) ==
    /\ d.total_customers = FromResponse(response, "total_customers", PyInt(rows))
    /\ d.high_risk_customers =
          FromResponse(response, "high_risk_customers", PyInt(0))
    /\ d.predictions = FromResponse(response, "predictions", PyList(<<>>))
    /\ d.insights = FromResponse(response, "insights", PyStr(<<>>))
    /\ d.recommendations = FromResponse(response, "recommendations", PyStr(<<>>))

\* C15 as stated: on the 'completed' transition each field holds the value
\* of the response, or its default when the response lacks the key (the
\* row count for total_customers), and a 5-row upload that completes has
\* total_customers 5.
C15_Original ==
    [][\A id \in DOMAIN churn_analyses \cap DOMAIN churn_analyses' :
          ( /\ churn_analyses[id].status = "processing"
            /\ churn_analyses'[id].status = "completed" ) =>
              \A response \in Responses :
                  analyze_response(id, response) =>
                      /\ StoresResponse(churn_analyses'[id], response,
                                        tasks[id].total_customers)
                      /\ tasks[id].total_customers = SampleLines - 1 =>
                            churn_analyses'[id].total_customers
                                = PyInt(SampleLines - 1)]_vars

\* C15 amended: on the 'completed' transition each field holds the value
\* of the response, or its default when the response lacks the key; a
\* 5-row upload that completes has total_customers 5 when the response
\* lacks total_customers, and the number of the response otherwise.
C15_Amended ==
    [][\A id \in DOMAIN churn_analyses \cap DOMAIN churn_analyses' :
          ( /\ churn_analyses[id].status = "processing"
            /\ churn_analyses'[id].status = "completed" ) =>
              \A response \in Responses :
                  analyze_response(id, response) =>
                      /\ StoresResponse(churn_analyses'[id], response,
                                        tasks[id].total_customers)
                      /\ tasks[id].total_customers = SampleLines - 1 =>
                            churn_analyses'[id].total_customers =
                                IF "total_customers:" \in Range(response)
                                THEN PyInt(7) ELSE PyInt(SampleLines - 1)]_vars

\* Two 5-row uploads have completed: one holds the 7 customers of its
\* response, the other the 5 rows counted and the defaults of the keys its
\* response lacks.
C15_Witness ==
    /\ DOMAIN churn_analyses = {1, 2}
    /\ churn_analyses[1].status = "completed"
    /\ churn_analyses[1].total_customers = PyInt(7)
    /\ churn_analyses[2].status = "completed"
    /\ churn_analyses[2].total_customers = PyInt(SampleLines - 1)
    /\ churn_analyses[2].predictions = PyList(<<>>)
    /\ churn_analyses[2].recommendations = PyStr(<<>>)

\* C16: with every created task run and every call of the external service
\* answered or failed, and the store answering, every record that is not
\* deleted reaches 'completed', 'completed_with_errors' or 'failed'.
C16_EventuallyTerminal ==
    \A id \in Ids :
        (id \in DOMAIN churn_analyses) ~>
            (\/ id \notin DOMAIN churn_analyses
             \/ churn_analyses[id].status \in Terminal)

\* Both records have reached a terminal status, one through an exception
\* of the external call.
C16_Witness ==
    /\ DOMAIN churn_analyses = {1, 2}
    /\ churn_analyses[1].status = "failed"
    /\ churn_analyses[1].error = PyStr(<<"send_message failed">>)
    /\ churn_analyses[2].status = "completed"
    /\ tasks[1].pc = "done" /\ tasks[2].pc = "done"

\* C17: while the external call of a job has neither returned nor raised,
\* the record of the job, as long as it exists, is in 'processing': no step
\* of another task or of a request changes that.
C17_ProcessingWhileAwaiting ==
    \A id \in DOMAIN churn_analyses :
        tasks[id].pc = "awaiting" => churn_analyses[id].status = "processing"

\* The first job still waits for the external service, in 'processing',
\* after the second job has ended and the records have been listed.
C17_Witness ==
    /\ DOMAIN churn_analyses = {1, 2}
    /\ tasks[1].pc = "awaiting"
    /\ churn_analyses[1].status = "processing"
    /\ tasks[2].pc = "done"
    /\ churn_analyses[2].status \in Terminal
    /\ resp.op = "list" /\ Len(resp.doc) = 2
    /\ resp.doc[1].status \in Terminal
    /\ resp.doc[2].status = "processing"

\* C18: a step of the task of job A leaves every record of another id as
\* it was, whichever update the task makes, the 'failed' one included.
C18_OtherRecordsUnchanged ==
    [][\A a \in Ids :
          (tasks[a].pc # "none" /\ tasks'[a] # tasks[a]) =>
              \A id \in DOMAIN churn_analyses \ {a} :
                  /\ id \in DOMAIN churn_analyses'
                  /\ churn_analyses'[id] = churn_analyses[id]]_vars

\* The task of the second job has failed while the record of the first,
\* whose task still waits, is as it was inserted.
C18_Witness ==
    /\ DOMAIN churn_analyses = {1, 2}
    /\ churn_analyses[2].status = "failed"
    /\ tasks[2].pc = "done"
    /\ tasks[1].pc = "awaiting"
    /\ churn_analyses[1] = analysis_record(1, churn_analyses[1].filename, 1)

\* C19: a record has error set only in 'failed' and
\* 'completed_with_errors', and raw_response set only in
\* 'completed_with_errors'; a record in 'processing' or 'completed' has
\* neither.
C19_DiagnosticsOnlyOnErrors ==
    \A id \in DOMAIN churn_analyses :
        LET d == churn_analyses[id] IN
        /\ d.error # None => d.status \in {"failed", "completed_with_errors"}
        /\ d.raw_response # None => d.status = "completed_with_errors"

\* One record is 'completed_with_errors' with error and raw_response set,
\* the other 'completed' with neither.
C19_Witness ==
    /\ DOMAIN churn_analyses = {1, 2}
    /\ churn_analyses[1].status = "completed_with_errors"
    /\ churn_analyses[1].error # None
    /\ churn_analyses[1].raw_response # None
    /\ churn_analyses[2].status = "completed"
    /\ churn_analyses[2].error = None
    /\ churn_analyses[2].raw_response = None

\* C20: after a delete answered 200, and until the next request, neither
\* the record nor the uploaded file of that id exists, whether the task of
\* the id was still running or had ended.
C20_DeletedLeavesNothing ==
    (resp.op = "delete" /\ resp.code = 200) =>
        /\ resp.id \notin DOMAIN churn_analyses
        /\ ~exists(uploads, resp.id)

\* A record was deleted and its file removed by the delete while its task
\* still waits for the external service.
C20_Witness ==
    /\ resp.op = "delete" /\ resp.code = 200
    /\ unlinked
    /\ tasks[resp.id].pc = "awaiting"

\* A record of analysis_id was deleted while its task was in flight, and the
\* task has since made its terminal update, which matched no document.
UpdatedAfterDelete(analysis_id) ==
    /\ analysis_id \in deleted
    /\ tasks[analysis_id].pc = "done"
    /\ tasks[analysis_id].matched_count = 0

\* C21: an id whose delete has succeeded has no record from then on, also
\* while its task is still in flight and after the task's terminal update:
\* the update re-creates nothing, a lookup of the id is answered 404 and no
\* listing holds a record of the id.
C21_UpdateAfterDeleteIsNoOp ==
    /\ \A id \in deleted : id \notin DOMAIN churn_analyses
    /\ (resp.op = "get" /\ resp.id \in deleted) => resp.code = 404
    /\ resp.op = "list" =>
          \A k \in 1..Len(resp.doc) : resp.doc[k].analysis_id \notin deleted

\* The records were listed after the task of a deleted id had made its
\* terminal update against the vanished record, and the listing holds the
\* one record that is left.
C21_Witness ==
    /\ resp.op = "list" /\ resp.code = 200
    /\ UpdatedAfterDelete(1)
    /\ Len(resp.doc) = 1
    /\ resp.doc[1].analysis_id = 2

\* An upload has ended in a 500: it has drawn an id and returned none.
UploadFailed ==
    /\ generated' # generated
    /\ resp'.op = "upload" /\ resp'.code = 500

\* C22: an upload that ends in a 500 leaves the system as it was before
\* the request: no record of the id it drew, no file stored for that id and
\* no task scheduled for it.
C22_Claim ==
    [][UploadFailed =>
          /\ generated' \notin DOMAIN churn_analyses'
          /\ tasks'[generated'].pc = "none"
          /\ ~exists(uploads', generated')
          /\ UNCHANGED <<churn_analyses, uploads, tasks>>]_vars

\* What holds of a failed upload: the record and task parts of C22.
FailedUploadStoresNoRecord ==
    [][UploadFailed =>
          /\ generated' \notin DOMAIN churn_analyses'
          /\ tasks'[generated'].pc = "none"
          /\ UNCHANGED <<churn_analyses, tasks>>]_vars

====
